---- MODULE Spec2Model ----
(***************************************************************************)
(* A model of static/js/main.js of the manual polling tool: the            *)
(* DOMContentLoaded handler (checkbox rendering, default dates, handler    *)
(* registration), the tab-button click handler and the asynchronous form   *)
(* submit handler with its two suspension points (fetch, response.json).   *)
(* The page markup is not part of the script; it is the script's input and *)
(* is described here by the Markup definitions.                            *)
(***************************************************************************)
EXTENDS Integers, Sequences, FiniteSets, TLC

(***************************************************************************)
(* Bounds of the model.                                                    *)
(***************************************************************************)
\* submit events explored per run
MaxSubmits == 2
\* user edits (checkbox toggles, field edits) explored per run
MaxEdits == 2
\* tab-button clicks explored per run
MaxClicks == 4
\* applications of createCheckboxes to an already rendered panel explored per run
MaxRenders == 2

(***************************************************************************)
(* JavaScript string operations used by the script.                        *)
(***************************************************************************)
\* String.prototype.indexOf: 1-based position of the first occurrence, 0 if none
IndexOf(s, sub) ==
    LET n == Len(s)
        m == Len(sub)
        hits == {i \in 1..(n - m + 1) : SubSeq(s, i, i + m - 1) = sub}
    IN  IF hits = {} THEN 0 ELSE CHOOSE i \in hits : \A j \in hits : i <= j

\* String.prototype.includes
Includes(s, sub) == IndexOf(s, sub) # 0

\* String.prototype.endsWith
EndsWith(s, suf) ==
    /\ Len(suf) <= Len(s)
    /\ SubSeq(s, Len(s) - Len(suf) + 1, Len(s)) = suf

\* String.prototype.replace with a string pattern: the first occurrence only
ReplaceFirst(s, sub, rep) ==
    LET i == IndexOf(s, sub)
    IN  IF i = 0 THEN s
        ELSE SubSeq(s, 1, i - 1) \o rep \o SubSeq(s, i + Len(sub), Len(s))

\* String.prototype.replace with a /c/g pattern: every occurrence of one character
RECURSIVE ReplaceAll(_, _, _)
ReplaceAll(s, c, rep) ==
    IF Len(s) = 0 THEN ""
    ELSE (IF SubSeq(s, 1, 1) = c THEN rep ELSE SubSeq(s, 1, 1))
         \o ReplaceAll(SubSeq(s, 2, Len(s)), c, rep)

\* type.charAt(0).toUpperCase() + type.slice(1), for the two panel types
Capitalize(s) ==
    LET c == SubSeq(s, 1, 1)
        up == CASE c = "d" -> "D" [] c = "m" -> "M" [] OTHER -> c
    IN  up \o SubSeq(s, 2, Len(s))

(***************************************************************************)
(* JSON values: a tag t and a payload v.  An array holds a sequence of     *)
(* values, an object a sequence of [k, x] members in insertion order.      *)
(* Undefined is what reading an absent property yields.                    *)
(***************************************************************************)
JNull == [t |-> "null", v |-> 0]
Undefined == [t |-> "undefined", v |-> 0]
JNum(n) == [t |-> "number", v |-> n]
JStr(s) == [t |-> "string", v |-> s]
JArr(xs) == [t |-> "array", v |-> xs]
JObj(ms) == [t |-> "object", v |-> ms]

\* property read obj.key on a non-null value; absent (or a primitive's) is undefined
Get(x, key) ==
    IF x.t = "object" /\ \E i \in 1..Len(x.v) : x.v[i].k = key
    THEN x.v[CHOOSE i \in 1..Len(x.v) : x.v[i].k = key].x
    ELSE Undefined

\* x.length: defined for arrays and strings only
Length(x) ==
    CASE x.t = "array" -> JNum(Len(x.v))
      [] x.t = "string" -> JNum(Len(x.v))
      [] OTHER -> Undefined

\* property write obj[key] = value: in place when present, appended otherwise
SetProp(obj, key, val) ==
    IF \E i \in 1..Len(obj.v) : obj.v[i].k = key
    THEN JObj([i \in 1..Len(obj.v) |->
                 IF obj.v[i].k = key THEN [k |-> key, x |-> val] ELSE obj.v[i]])
    ELSE JObj(Append(obj.v, [k |-> key, x |-> val]))

\* JavaScript truthiness
Truthy(x) ==
    CASE x.t = "null" -> FALSE
      [] x.t = "undefined" -> FALSE
      [] x.t = "number" -> x.v # 0
      [] x.t = "string" -> x.v # ""
      [] OTHER -> TRUE

\* Array.isArray
IsArray(x) == x.t = "array"

\* String(x), as in `${x}` and new Error(x).message; an array is its elements
\* joined by commas, null and undefined elements giving the empty string
RECURSIVE ToStr(_)
RECURSIVE JoinFrom(_, _)
JoinFrom(xs, i) ==
    IF i > Len(xs) THEN ""
    ELSE (IF xs[i].t \in {"null", "undefined"} THEN "" ELSE ToStr(xs[i]))
         \o (IF i < Len(xs) THEN "," ELSE "")
         \o JoinFrom(xs, i + 1)
ToStr(x) ==
    CASE x.t = "null" -> "null"
      [] x.t = "undefined" -> "undefined"
      [] x.t = "number" -> ToString(x.v)
      [] x.t = "string" -> x.v
      [] x.t = "array" -> JoinFrom(x.v, 1)
      [] OTHER -> "[object Object]"

\* JSON.stringify(x): no white space.  The strings of the model hold no
\* character that JSON escapes.
RECURSIVE StringifyCompact(_)
RECURSIVE CompactItems(_, _)
CompactItems(xs, i) ==
    IF i > Len(xs) THEN ""
    ELSE StringifyCompact(xs[i]) \o (IF i < Len(xs) THEN "," ELSE "")
         \o CompactItems(xs, i + 1)
RECURSIVE CompactMembers(_, _)
CompactMembers(ms, i) ==
    IF i > Len(ms) THEN ""
    ELSE "\"" \o ms[i].k \o "\":" \o StringifyCompact(ms[i].x)
         \o (IF i < Len(ms) THEN "," ELSE "")
         \o CompactMembers(ms, i + 1)
StringifyCompact(x) ==
    CASE x.t = "null" -> "null"
      [] x.t = "number" -> ToString(x.v)
      [] x.t = "string" -> "\"" \o x.v \o "\""
      [] x.t = "array" -> "[" \o CompactItems(x.v, 1) \o "]"
      [] x.t = "object" -> "{" \o CompactMembers(x.v, 1) \o "}"
      [] OTHER -> "undefined"

\* JSON.stringify(x, null, 2), pad being the indentation of the enclosing line
RECURSIVE Stringify(_, _)
RECURSIVE StringifyItems(_, _, _)
StringifyItems(xs, i, pad) ==
    IF i > Len(xs) THEN ""
    ELSE pad \o Stringify(xs[i], pad)
         \o (IF i < Len(xs) THEN ",\n" ELSE "\n")
         \o StringifyItems(xs, i + 1, pad)
RECURSIVE StringifyMembers(_, _, _)
StringifyMembers(ms, i, pad) ==
    IF i > Len(ms) THEN ""
    ELSE pad \o "\"" \o ms[i].k \o "\": " \o Stringify(ms[i].x, pad)
         \o (IF i < Len(ms) THEN ",\n" ELSE "\n")
         \o StringifyMembers(ms, i + 1, pad)
Stringify(x, pad) ==
    CASE x.t = "null" -> "null"
      [] x.t = "number" -> ToString(x.v)
      [] x.t = "string" -> "\"" \o x.v \o "\""
      [] x.t = "array" ->
            IF Len(x.v) = 0 THEN "[]"
            ELSE "[\n" \o StringifyItems(x.v, 1, pad \o "  ") \o pad \o "]"
      [] x.t = "object" ->
            IF Len(x.v) = 0 THEN "{}"
            ELSE "{\n" \o StringifyMembers(x.v, 1, pad \o "  ") \o pad \o "}"
      [] OTHER -> "undefined"

(***************************************************************************)
(* The registry of provider schemas.                                       *)
(***************************************************************************)
definitions ==
    [admob |-> [dimensions |-> <<"DATE", "AD_UNIT", "FORMAT", "COUNTRY", "APP",
                                 "PLATFORM", "PLACEMENT", "AD_SOURCE", "CREATIVE",
                                 "BID_TYPE">>,
                metrics |-> <<"ESTIMATED_EARNINGS", "IMPRESSIONS", "IMPRESSION_RPM",
                              "CLICKS", "ACTIVE_VIEW_IMPRESSIONS", "MATCHED_REQUESTS",
                              "SHOW_RATE", "CLICK_THROUGH_RATE", "AD_REQUESTS">>],
     gam |-> [dimensions |-> <<"date", "ad_unit_name", "ad_unit_id",
                               "parent_ad_unit_id", "country_name",
                               "country_criteria_id">>,
              metrics |-> <<"impressions", "revenue">>],
     applovin |-> [dimensions |-> <<"day", "application", "country", "platform",
                                    "package_name", "size", "zone_id", "ad_type">>,
                   metrics |-> <<"revenue", "views", "impressions", "clicks">>],
     chartboost |-> [dimensions |-> <<"day", "app_id", "app_name", "country_code",
                                      "platform", "ad_location", "ad_type",
                                      "campaign_type">>,
                     metrics |-> <<"revenue", "impressions", "clicks", "installs",
                                   "ecpm", "cpcv", "ctr", "install_rate",
                                   "video_completed">>],
     facebook |-> [dimensions |-> <<"placement", "country", "day">>,
                   metrics |-> <<"revenue">>],
     fyber |-> [dimensions |-> <<"app_id", "spot_id", "day", "country_code",
                                 "content_id", "content_name", "app_name",
                                 "distributor_name", "content_categories">>,
                metrics |-> <<"ad_requests", "impressions", "fill_rate", "clicks",
                              "ctr", "ecpm", "revenue">>],
     hyprmx |-> [dimensions |-> <<"placement", "country">>,
                 metrics |-> <<>>],
     inmobi |-> [dimensions |-> <<"country", "countryId", "placementId",
                                  "placementName">>,
                 metrics |-> <<"earnings">>]]

\* Object.entries(definitions): the provider ids in insertion order
DefinitionOrder ==
    <<"admob", "gam", "applovin", "chartboost", "facebook", "fyber", "hyprmx", "inmobi">>

(***************************************************************************)
(* The JavaScript Date operations used by setDefaultDates.  A date is a    *)
(* day number (days since 1970-01-01); the clock gives the local day and   *)
(* by how many days the UTC calendar date differs from the local one at    *)
(* that instant.                                                           *)
(***************************************************************************)
\* the calendar date (year, month, day of month) of a day number
CivilFromDays(days) ==
    LET z == days + 719468
        era == z \div 146097
        doe == z - era * 146097
        yoe == (doe - doe \div 1460 + doe \div 36524 - doe \div 146096) \div 365
        doy == doe - (365 * yoe + yoe \div 4 - yoe \div 100)
        mp == (5 * doy + 2) \div 153
        d == doy - (153 * mp + 2) \div 5 + 1
        m == IF mp < 10 THEN mp + 3 ELSE mp - 9
    IN  [y |-> yoe + era * 400 + (IF m <= 2 THEN 1 ELSE 0), m |-> m, d |-> d]

\* the day number of a calendar date; d may lie outside the month, as in setDate
DaysFromCivil(y, m, d) ==
    LET yy == IF m <= 2 THEN y - 1 ELSE y
        era == yy \div 400
        yoe == yy - era * 400
        doy == (153 * (IF m > 2 THEN m - 3 ELSE m + 9) + 2) \div 5 + d - 1
        doe == yoe * 365 + yoe \div 4 - yoe \div 100 + doy
    IN  era * 146097 + doe - 719468

\* Date.prototype.getDate: the local day of the month
GetDate(localDay) == CivilFromDays(localDay).d

\* Date.prototype.setDate(n): day n of the date's local month, normalised
SetDate(localDay, n) ==
    LET c == CivilFromDays(localDay) IN DaysFromCivil(c.y, c.m, n)

Pad(n, width) ==
    LET s == ToString(n)
    IN  IF Len(s) >= width THEN s
        ELSE SubSeq("0000", 1, width - Len(s)) \o s

\* formatDate = date.toISOString().split('T')[0]: the UTC calendar date
formatDate(localDay, shift) ==
    LET c == CivilFromDays(localDay + shift)
    IN  Pad(c.y, 4) \o "-" \o Pad(c.m, 2) \o "-" \o Pad(c.d, 2)

(***************************************************************************)
(* The page markup the script runs against.                                *)
(***************************************************************************)
\* the providers that have a panel on the page
PageProviders == {"facebook", "hyprmx"}

FormIds == {p \o "-form" : p \in PageProviders}
StatusIds == {p \o "-status" : p \in PageProviders}
ResultsIds == {p \o "-results" : p \in PageProviders}
ContainerIds == {p \o "-dimensions" : p \in PageProviders}
                    \cup {p \o "-metrics" : p \in PageProviders}
\* the elements the script looks up with getElementById
TargetIds == StatusIds \cup ResultsIds \cup ContainerIds
\* the checkbox containers the script looks for: two per registry entry
RegistryContainerIds ==
    {DefinitionOrder[i] \o "-dimensions" : i \in 1..Len(DefinitionOrder)}
        \cup {DefinitionOrder[i] \o "-metrics" : i \in 1..Len(DefinitionOrder)}

\* form.dataset.endpoint
Endpoint(form) == "/api/" \o ReplaceFirst(form, "-form", "")

\* the non-checkbox inputs and selects of each form, in document order
MarkupFields ==
    [f \in FormIds |->
        IF f = "facebook-form"
        THEN << [id |-> "facebook-start-date", type |-> "date", value |-> ""],
                [id |-> "facebook-end-date", type |-> "date", value |-> ""],
                [id |-> "facebook-app-id", type |-> "text", value |-> "123"] >>
        ELSE << [id |-> "hyprmx-start-date", type |-> "date", value |-> ""],
                [id |-> "hyprmx-end-date", type |-> "date", value |-> ""],
                [id |-> "hyprmx-report-date", type |-> "date", value |-> "2024-01-01"],
                [id |-> "dimensions", type |-> "select-one", value |-> "all"] >>]

\* the tab buttons (with their data-tab) and the tab panes of the page
TabButtons == {"btn-facebook", "btn-hyprmx", "btn-admob"}
TabPanes == {"facebook", "hyprmx", "admob"}
DataTab(button) == ReplaceFirst(button, "btn-", "")
\* the elements of the page the script reaches, by id or by class
PageIds == TargetIds \cup TabPanes

\* instants at which the page may be loaded: local day number and UTC shift
Clocks ==
    {[day |-> DaysFromCivil(2024, 3, 5), shift |-> 0],
     [day |-> DaysFromCivil(2024, 1, 3), shift |-> 1],
     [day |-> DaysFromCivil(2023, 12, 31), shift |-> -1]}

VARIABLES
    loaded,         \* the DOMContentLoaded handler has run
    clock,          \* the instant of the page load
    doc,            \* the ids of the elements that exist in the document
    boxes,          \* container id -> child nodes of the checkbox container
    fields,         \* form id -> the form's non-checkbox inputs and selects
    status,         \* status element id -> [className, textContent]
    results,        \* results element id -> child nodes of the results element
    requests,       \* the submissions that issued a request, in submit order
    settled,        \* indexes of requests, in the order their handlers finished
    submitLog,      \* the forms of the submit events dispatched, in order
    edits,          \* user edits made
    renderLog,      \* applications of createCheckboxes after the page load
    uncaught,       \* exceptions that escaped a handler
    objectUrls,     \* object URLs created by URL.createObjectURL
    activeButtons,  \* tab buttons carrying the class "active"
    activePanes,    \* tab panes carrying the class "active"
    clickLog        \* the tab buttons clicked, in order

vars == <<loaded, clock, doc, boxes, fields, status, results, requests, settled,
          submitLog, edits, renderLog, uncaught, objectUrls, activeButtons,
          activePanes, clickLog>>

formVars == <<boxes, fields, edits, renderLog>>
tabVars == <<activeButtons, activePanes, clickLog>>
pipeVars == <<status, results, requests, settled, submitLog, uncaught, objectUrls>>

(***************************************************************************)
(* Page load: the DOMContentLoaded handler.                                *)
(***************************************************************************)
Node(tag, text, value, checked) ==
    [tag |-> tag, text |-> text, value |-> value, checked |-> checked]

\* checkbox nodes whose value is the display text of the item
CheckboxNodesValueFromText(items) ==
    [i \in 1..Len(items) |->
        Node("label", " " \o ReplaceAll(items[i], "_", " "),
             ReplaceAll(items[i], "_", " "), TRUE)]

\* the label/checkbox nodes appended by the forEach of createCheckboxes
CheckboxNodes(items) ==
    [i \in 1..Len(items) |->
        Node("label", " " \o ReplaceAll(items[i], "_", " "), items[i], TRUE)]

\* a createCheckboxes that appends to what the container holds
createCheckboxesAppending(d, bx, containerId, items) ==
    IF containerId \notin d THEN bx
    ELSE LET type == IF EndsWith(containerId, "-dimensions")
                     THEN "dimensions" ELSE "metrics"
             heading == Node("strong", Capitalize(type) \o ":", "", FALSE)
         IN  [bx EXCEPT ![containerId] = @ \o <<heading>> \o CheckboxNodes(items)]

\* createCheckboxes(containerId, items) applied to the containers bx of document d
createCheckboxes(d, bx, containerId, items) ==
    IF containerId \notin d THEN bx
    ELSE LET type == IF EndsWith(containerId, "-dimensions")
                     THEN "dimensions" ELSE "metrics"
             heading == Node("strong", Capitalize(type) \o ":", "", FALSE)
         IN  [bx EXCEPT ![containerId] = <<heading>> \o CheckboxNodes(items)]

\* the loop over Object.entries(definitions), from entry i on
RECURSIVE PopulateAll(_, _, _)
PopulateAll(d, bx, i) ==
    IF i > Len(DefinitionOrder) THEN bx
    ELSE LET provider == DefinitionOrder[i]
             cats == definitions[provider]
             dims == createCheckboxes(d, bx, provider \o "-dimensions", cats.dimensions)
             mets == createCheckboxes(d, dims, provider \o "-metrics", cats.metrics)
         IN  PopulateAll(d, mets, i + 1)

\* setDefaultDates applied to the inputs of one form
setDefaultDates(c, inputs) ==
    LET today == c.day
        sevenDaysAgo == SetDate(c.day, GetDate(today) - 7)
    IN  [i \in 1..Len(inputs) |->
            IF inputs[i].type # "date" THEN inputs[i]
            ELSE IF Includes(inputs[i].id, "-end-date")
                 THEN [inputs[i] EXCEPT !.value = formatDate(today, c.shift)]
            ELSE IF Includes(inputs[i].id, "-start-date")
                 THEN [inputs[i] EXCEPT !.value = formatDate(sevenDaysAgo, c.shift)]
            ELSE inputs[i]]

\* the markup before the script runs; docs, clocks and tabs are the documents,
\* the load instants and the initially active tab buttons considered
InitMarkup(docs, clocks, tabs) ==
    /\ loaded = FALSE
    /\ clock \in clocks
    /\ doc \in docs
    /\ boxes = [id \in RegistryContainerIds |-> <<>>]
    /\ fields = MarkupFields
    /\ status = [id \in StatusIds |-> [className |-> "status", textContent |-> ""]]
    /\ results = [id \in ResultsIds |-> <<>>]
    /\ requests = <<>>
    /\ settled = <<>>
    /\ submitLog = <<>>
    /\ edits = 0
    /\ renderLog = <<>>
    /\ uncaught = 0
    /\ objectUrls = 0
    /\ \E b \in tabs :
          DataTab(b) \in doc /\ activeButtons = {b} /\ activePanes = {DataTab(b)}
    /\ clickLog = <<>>

\* the synchronous body of the DOMContentLoaded handler
Load ==
    /\ ~loaded
    /\ loaded' = TRUE
    /\ boxes' = PopulateAll(doc, boxes, 1)
    /\ fields' = [f \in FormIds |-> setDefaultDates(clock, fields[f])]
    /\ UNCHANGED <<clock, doc, edits, renderLog, tabVars, pipeVars>>

(***************************************************************************)
(* The submit handler, up to its first suspension (the fetch call).        *)
(***************************************************************************)
LoadingText == "Polling in progress... Please wait."

\* a status element that loses its state class when a submission starts
LoadingStatusNoClass == [className |-> "status", textContent |-> LoadingText]

\* lines 111-112: the writes to the status element when a submission starts
LoadingStatus == [className |-> "status loading", textContent |-> LoadingText]

\* the forEach over form.querySelectorAll('input, select'), from input i on;
\* the checkboxes of the form are skipped by the type test
RECURSIVE CollectInputs(_, _, _, _)
CollectInputs(payload, inputs, provider, i) ==
    IF i > Len(inputs) THEN payload
    ELSE LET input == inputs[i]
             key == ReplaceAll(ReplaceFirst(input.id, provider \o "-", ""), "-", "_")
         IN  CollectInputs(
                 IF input.type # "checkbox"
                 THEN SetProp(payload, key, JStr(input.value)) ELSE payload,
                 inputs, provider, i + 1)

\* Array.from(form.querySelectorAll('#<containerId> input:checked')).map(cb => cb.value)
CheckedValues(d, bx, containerId) ==
    IF containerId \notin d THEN JArr(<<>>)
    ELSE LET picked == SelectSeq(bx[containerId],
                                 LAMBDA n : n.tag = "label" /\ n.checked)
         IN  JArr([i \in 1..Len(picked) |-> JStr(picked[i].value)])

\* a payload in which the inputs are collected after the checkbox arrays
BuildPayloadInputsLast(d, bx, inputs, provider) ==
    LET withDims == SetProp(JObj(<<>>), "dimensions",
                            CheckedValues(d, bx, provider \o "-dimensions"))
        withMets == SetProp(withDims, "metrics",
                            CheckedValues(d, bx, provider \o "-metrics"))
    IN  CollectInputs(withMets, inputs, provider, 1)

\* the payload assembled from the form state
BuildPayload(d, bx, inputs, provider) ==
    LET collected == CollectInputs(JObj(<<>>), inputs, provider, 1)
        withDims == SetProp(collected, "dimensions",
                            CheckedValues(d, bx, provider \o "-dimensions"))
    IN  SetProp(withDims, "metrics", CheckedValues(d, bx, provider \o "-metrics"))

NoResponse == [status |-> 0, body |-> Undefined]

\* a provider that does not depend on the form submitted
ProviderOfFirstPanel(form) == "facebook"

\* form.id.replace('-form', '')
ProviderOf(form) == ReplaceFirst(form, "-form", "")

\* the request issued by fetch(endpoint, {method, headers, body})
NewRequest(form, payload) ==
    [form |-> form,
     provider |-> ProviderOf(form),
     endpoint |-> Endpoint(form),
     method |-> "POST",
     contentType |-> "application/json",
     body |-> StringifyCompact(payload),
     payload |-> payload,
     pc |-> "fetch",
     response |-> NoResponse,
     seen |-> Len(settled)]

\* a handler that issues the request without clearing the results element
SubmitKeepingResults(form) ==
    LET provider == ProviderOf(form)
        statusId == provider \o "-status"
    IN  /\ loaded
        /\ statusId \in doc
        /\ submitLog' = Append(submitLog, form)
        /\ status' = [status EXCEPT ![statusId] = LoadingStatus]
        /\ requests' = Append(requests,
               NewRequest(form, BuildPayload(doc, boxes, fields[form], provider)))
        /\ UNCHANGED <<loaded, clock, doc, formVars, tabVars, results, settled,
                       uncaught, objectUrls>>

\* a submit event on a form: the handler runs to the await of fetch, or throws
\* a TypeError on a missing status or results element
Submit(form) ==
    LET provider == ProviderOf(form)
        statusId == provider \o "-status"
        resultsId == provider \o "-results"
    IN  /\ loaded
        /\ submitLog' = Append(submitLog, form)
        /\ IF statusId \notin doc
           THEN /\ uncaught' = uncaught + 1
                /\ UNCHANGED <<status, results, requests>>
           ELSE /\ status' = [status EXCEPT ![statusId] = LoadingStatus]
                /\ IF resultsId \notin doc
                   THEN /\ uncaught' = uncaught + 1
                        /\ UNCHANGED <<results, requests>>
                   ELSE /\ results' = [results EXCEPT ![resultsId] = <<>>]
                        /\ requests' = Append(requests,
                               NewRequest(form,
                                   BuildPayload(doc, boxes, fields[form], provider)))
                        /\ UNCHANGED uncaught
        /\ UNCHANGED <<loaded, clock, doc, formVars, tabVars, settled, objectUrls>>

(***************************************************************************)
(* The responses a server may give.                                        *)
(***************************************************************************)
Malformed == [t |-> "malformed", v |-> 0]

Member(k, x) == [k |-> k, x |-> x]

\* decoded response bodies considered, and a body that is not JSON
Bodies ==
    {JObj(<<Member("data", JArr(<<JObj(<<Member("a", JNum(1))>>),
                                  JObj(<<Member("a", JNum(2))>>)>>))>>),
     JArr(<<JNum(1), JNum(2), JNum(3)>>),
     JObj(<<Member("error", JStr("quota exceeded"))>>),
     JObj(<<Member("data", JObj(<<Member("data", JArr(<<JNum(7)>>))>>))>>),
     JObj(<<>>),
     JNull,
     Malformed}

\* HTTP status codes considered
StatusCodes == {200, 500}

\* response.ok
Ok(response) == response.status >= 200 /\ response.status <= 299

(***************************************************************************)
(* The submit handler after its suspensions.                               *)
(***************************************************************************)
NetworkErrorMessage == "Failed to fetch"
SyntaxErrorMessage == "Unexpected token < in JSON at position 0"
NullReadMessage(prop) == "Cannot read properties of null (reading '" \o prop \o "')"

\* a row count that looks at a bare array only
RowCountBareOnly(result) ==
    IF IsArray(result) THEN Length(result) ELSE JNum(0)

\* lines 143-144: the row count of a decoded 2xx body that is not null
RowCount(result) ==
    LET data == IF Truthy(Get(result, "data")) THEN Get(result, "data") ELSE result
    IN  IF IsArray(data) THEN Length(data)
        ELSE IF Truthy(Get(data, "data")) THEN Length(Get(data, "data"))
        ELSE JNum(0)

\* a message that ignores the body's error field
ServerErrorMessageGeneric(result, code) ==
    IF result = JNull THEN NullReadMessage("error")
    ELSE "Server responded with status " \o ToString(code)

\* line 139: the message of the Error thrown for a response that is not ok
ServerErrorMessage(result, code) ==
    IF result = JNull THEN NullReadMessage("error")
    ELSE IF Truthy(Get(result, "error")) THEN ToStr(Get(result, "error"))
    ELSE "Server responded with status " \o ToString(code)

\* whether the try block throws once the body is read, and with which message
Thrown(response) ==
    LET result == response.body
    IN  IF result = Malformed THEN [thrown |-> TRUE, message |-> SyntaxErrorMessage]
        ELSE IF ~Ok(response)
        THEN [thrown |-> TRUE,
              message |-> ServerErrorMessage(result, response.status)]
        ELSE IF result = JNull
        THEN [thrown |-> TRUE, message |-> NullReadMessage("data")]
        ELSE [thrown |-> FALSE, message |-> ""]

\* a success path that sets the text but leaves the class of the submission
SuccessStatusKeepingClass(result) ==
    [className |-> "status loading",
     textContent |-> "Polling successful! Fetched " \o ToStr(RowCount(result))
                     \o " rows."]

\* lines 141-144: the writes to the status element on the success path
SuccessStatus(result) ==
    [className |-> "status success",
     textContent |-> "Polling successful! Fetched " \o ToStr(RowCount(result))
                     \o " rows."]

\* a catch block that sets the text but not the class
ErrorStatusNoClass(message) ==
    [className |-> "status loading", textContent |-> "Polling failed: " \o message]

\* the catch block's writes to the status element
ErrorStatus(message) ==
    [className |-> "status error", textContent |-> "Polling failed: " \o message]

\* displayResults: the children of the container after the call
displayResults(resultData, filename, url) ==
    << [tag |-> "a", href |-> url, download |-> filename,
        textContent |-> "Download Results (JSON)"],
       [tag |-> "pre", href |-> "", download |-> "",
        textContent |-> Stringify(resultData, "")] >>

\* URL.createObjectURL: a fresh URL per call
ObjectUrl(n) == "blob:" \o ToString(n)

\* a handler that issued the request again after a network failure
FinishRetrying(i) ==
    /\ requests' =
           IF requests[i].response = NoResponse
           THEN Append([requests EXCEPT ![i].pc = "done"],
                       [requests[i] EXCEPT !.seen = Len(settled) + 1])
           ELSE [requests EXCEPT ![i].pc = "done"]
    /\ settled' = Append(settled, i)

\* the handler of request i has finished
Finish(i) ==
    /\ requests' = [requests EXCEPT ![i].pc = "done"]
    /\ settled' = Append(settled, i)

\* fetch resolves with a response: the handler proceeds to await response.json()
FetchResolve(i, code, body) ==
    /\ requests[i].pc = "fetch"
    /\ requests' = [requests EXCEPT ![i].pc = "json",
                                    ![i].response = [status |-> code, body |-> body]]
    /\ UNCHANGED <<loaded, clock, doc, formVars, tabVars, status, results, settled,
                   submitLog, uncaught, objectUrls>>

\* fetch rejects (network failure): the catch block runs
FetchReject(i) ==
    /\ requests[i].pc = "fetch"
    /\ status' = [status EXCEPT ![requests[i].provider \o "-status"] =
                     ErrorStatus(NetworkErrorMessage)]
    /\ Finish(i)
    /\ UNCHANGED <<loaded, clock, doc, formVars, tabVars, results, submitLog, uncaught,
                   objectUrls>>

\* response.json() settles: lines 136-154 run to the end of the handler
JsonSettle(i) ==
    LET r == requests[i]
        statusId == r.provider \o "-status"
        resultsId == r.provider \o "-results"
        t == Thrown(r.response)
    IN  /\ r.pc = "json"
        /\ IF t.thrown
           THEN /\ status' = [status EXCEPT ![statusId] = ErrorStatus(t.message)]
                /\ UNCHANGED <<results, objectUrls>>
           ELSE /\ status' = [status EXCEPT ![statusId] = SuccessStatus(r.response.body)]
                /\ results' = [results EXCEPT ![resultsId] =
                       displayResults(r.response.body, r.provider \o "_report.json",
                                      ObjectUrl(objectUrls + 1))]
                /\ objectUrls' = objectUrls + 1
        /\ Finish(i)
        /\ UNCHANGED <<loaded, clock, doc, formVars, tabVars, submitLog, uncaught>>

\* no response and no failure ever arrives: there is no timeout and no abort
Hang(i) ==
    /\ requests[i].pc = "fetch"
    /\ requests' = [requests EXCEPT ![i].pc = "hung"]
    /\ UNCHANGED <<loaded, clock, doc, formVars, tabVars, status, results, settled,
                   submitLog, uncaught, objectUrls>>

(***************************************************************************)
(* The submission pipeline on the page with every target element present.  *)
(***************************************************************************)
LoadInstant == [day |-> DaysFromCivil(2024, 3, 5), shift |-> 0]

Init == InitMarkup({PageIds}, {LoadInstant}, {"btn-facebook"})

Next ==
    \/ Load
    \/ \E form \in FormIds : Len(submitLog) < MaxSubmits /\ Submit(form)
    \/ \E i \in 1..Len(requests) : \E code \in StatusCodes : \E body \in Bodies :
          FetchResolve(i, code, body)
    \/ \E i \in 1..Len(requests) : FetchReject(i)
    \/ \E i \in 1..Len(requests) : JsonSettle(i)
    \/ \E i \in 1..Len(requests) : Hang(i)

Spec == Init /\ [][Next]_vars

(***************************************************************************)
(* The tab-button click handler.                                           *)
(***************************************************************************)
\* document.querySelectorAll('.tab-pane')
tabPanes == TabPanes \cap doc

\* a pane loop that adds the marker to the target and removes it nowhere
PanesAfterClickAddOnly(button, panes) ==
    panes \cup {pane \in tabPanes : pane = DataTab(button)}

\* lines 91-97: the panes carrying "active" after the loop over tabPanes
PanesAfterClick(button, panes) ==
    {pane \in tabPanes : pane = DataTab(button)}

\* lines 88-89: the buttons carrying "active" after the click
ButtonsAfterClick(button, buttons) == (buttons \ TabButtons) \cup {button}

ClickTab(button) ==
    /\ loaded
    /\ activeButtons' = ButtonsAfterClick(button, activeButtons)
    /\ activePanes' = PanesAfterClick(button, activePanes)
    /\ clickLog' = Append(clickLog, button)
    /\ UNCHANGED <<loaded, clock, doc, formVars, pipeVars>>

InitTabs == InitMarkup({PageIds}, {LoadInstant}, TabButtons)

NextTabs ==
    \/ Load
    \/ \E button \in TabButtons : Len(clickLog) < MaxClicks /\ ClickTab(button)

SpecTabs == InitTabs /\ [][NextTabs]_vars

\* the documents in which at most one tab button designates no pane
TabDocuments == {PageIds} \cup {PageIds \ {pane} : pane \in TabPanes}

InitTabsDom == InitMarkup(TabDocuments, {LoadInstant}, TabButtons)

SpecTabsDom == InitTabsDom /\ [][NextTabs]_vars

(***************************************************************************)
(* The user's edits of a form between submit events.                       *)
(***************************************************************************)
\* values a user may give to an input or select
InputValues == {"", "a-b"}

\* the user checks or unchecks the checkbox of child k of a container
ToggleCheckbox(containerId, k) ==
    /\ loaded
    /\ containerId \in doc
    /\ k \in 1..Len(boxes[containerId])
    /\ boxes[containerId][k].tag = "label"
    /\ boxes' = [boxes EXCEPT ![containerId][k].checked = ~@]
    /\ edits' = edits + 1
    /\ UNCHANGED <<loaded, clock, doc, fields, renderLog, tabVars, pipeVars>>

\* the user changes the value of input k of a form
EditField(form, k, value) ==
    /\ loaded
    /\ k \in 1..Len(fields[form])
    /\ fields[form][k].value # value
    /\ fields' = [fields EXCEPT ![form][k].value = value]
    /\ edits' = edits + 1
    /\ UNCHANGED <<loaded, clock, doc, boxes, renderLog, tabVars, pipeVars>>

NextForm ==
    \/ Load
    \/ \E c \in ContainerIds : \E k \in 1..Len(boxes[c]) :
          edits < MaxEdits /\ ToggleCheckbox(c, k)
    \/ \E form \in FormIds : \E k \in 1..Len(fields[form]) : \E value \in InputValues :
          edits < MaxEdits /\ EditField(form, k, value)
    \/ \E form \in FormIds : Len(submitLog) < MaxSubmits /\ Submit(form)

SpecForm == Init /\ [][NextForm]_vars

(***************************************************************************)
(* Submissions interleaved with the user's edits and with responses.       *)
(***************************************************************************)
\* the response bodies delivered between the edits: rows, and a malformed body
EditedRunBodies == {JArr(<<JNum(1), JNum(2), JNum(3)>>), Malformed}

\* some request awaits its response; the edits of these runs are the toggles the
\* user makes meanwhile
InFlight == \E i \in 1..Len(requests) : requests[i].pc # "done"

NextEdited ==
    \/ Load
    \/ \E c \in ContainerIds : \E k \in 1..Len(boxes[c]) :
          edits < MaxEdits - 1 /\ InFlight /\ ToggleCheckbox(c, k)
    \/ \E form \in FormIds : Len(submitLog) < MaxSubmits /\ Submit(form)
    \/ \E i \in 1..Len(requests) : \E body \in EditedRunBodies :
          FetchResolve(i, 200, body)
    \/ \E i \in 1..Len(requests) : JsonSettle(i)

SpecEdited == Init /\ [][NextEdited]_vars

(***************************************************************************)
(* createCheckboxes applied again to a panel that already holds nodes.     *)
(***************************************************************************)
\* the field lists rendered: the schema lists of the providers of the page
RenderLists ==
    {definitions[p].dimensions : p \in PageProviders}
        \cup {definitions[p].metrics : p \in PageProviders}

\* one more call createCheckboxes(containerId, items)
Render(containerId, items) ==
    /\ loaded
    /\ boxes' = createCheckboxes(doc, boxes, containerId, items)
    /\ renderLog' = Append(renderLog, [container |-> containerId,
                                       items |-> items,
                                       before |-> boxes[containerId],
                                       after |-> boxes'[containerId]])
    /\ UNCHANGED <<loaded, clock, doc, fields, edits, tabVars, pipeVars>>

NextRender ==
    \/ Load
    \/ \E c \in ContainerIds : \E k \in 1..Len(boxes[c]) :
          edits < MaxEdits /\ ToggleCheckbox(c, k)
    \/ \E c \in ContainerIds : \E items \in RenderLists :
          Len(renderLog) < MaxRenders /\ Render(c, items)

SpecRender == Init /\ [][NextRender]_vars

(***************************************************************************)
(* The page load, on pages with the panels of any provider of the registry *)
(* and at any of the load instants.                                        *)
(***************************************************************************)
\* the page, with the two checkbox containers of one more registry provider
LoadDocuments ==
    {PageIds \cup {DefinitionOrder[i] \o "-dimensions", DefinitionOrder[i] \o "-metrics"} :
        i \in 1..Len(DefinitionOrder)}

InitLoad == InitMarkup(LoadDocuments, Clocks, {"btn-facebook"})

NextLoad ==
    \/ Load
    \/ \E form \in FormIds : \E k \in 1..Len(fields[form]) : \E value \in InputValues :
          edits < MaxEdits /\ EditField(form, k, value)

SpecLoad == InitLoad /\ [][NextLoad]_vars

(***************************************************************************)
(* The page with one of the elements looked up by id missing.              *)
(***************************************************************************)
\* the documents that lack at most one of the target elements
Documents == {PageIds} \cup {PageIds \ {id} : id \in TargetIds}

InitDom == InitMarkup(Documents, {LoadInstant}, {"btn-facebook"})

SpecDom == InitDom /\ [][Next]_vars

(***************************************************************************)
(* Vocabulary of the properties below.                                     *)
(***************************************************************************)
StatusId(r) == r.provider \o "-status"
ResultsId(r) == r.provider \o "-results"
Indexes == 1..Len(requests)

\* the handler of request i finishes in this step
Settles(i) == requests[i].pc # "done" /\ requests'[i].pc = "done"

\* a submit event is dispatched in this step
SubmitStep == Len(submitLog') = Len(submitLog) + 1

\* the three failures of the error taxonomy, for a request whose handler finished
NetworkFailure(r) == r.pc = "done" /\ r.response = NoResponse
Non2xx(r) == r.response # NoResponse /\ ~(r.response.status \in 200..299)
MalformedJson(r) == r.response # NoResponse /\ r.response.body = Malformed
TaxonomyFailure(r) == NetworkFailure(r) \/ Non2xx(r) \/ MalformedJson(r)

\* the handler of a finished request ended in its catch block
EndedInCatch(r) == NetworkFailure(r) \/ Thrown(r.response).thrown

\* the position of request i in the order of settlement (0: not settled)
SettledAt(i) ==
    IF \E k \in 1..Len(settled) : settled[k] = i
    THEN CHOOSE k \in 1..Len(settled) : settled[k] = i
    ELSE 0

\* requests i and j of one provider were in flight at the same time
Overlap(i, j) ==
    /\ i < j
    /\ requests[i].provider = requests[j].provider
    /\ SettledAt(i) = 0 \/ SettledAt(i) > requests[j].seen

\* the request of provider p whose handler finished last
LastSettled(p) ==
    LET ks == {k \in 1..Len(settled) : requests[settled[k]].provider = p}
    IN  settled[CHOOSE k \in ks : \A l \in ks : l <= k]

\* the results element holds the rendering of the body of request r
Renders(r) ==
    /\ Len(results[ResultsId(r)]) = 2
    /\ results[ResultsId(r)][1].tag = "a"
    /\ results[ResultsId(r)][1].download = r.provider \o "_report.json"
    /\ results[ResultsId(r)][2].tag = "pre"
    /\ results[ResultsId(r)][2].textContent = Stringify(r.response.body, "")

HasPrefix(s, prefix) == Len(s) >= Len(prefix) /\ SubSeq(s, 1, Len(prefix)) = prefix

(***************************************************************************)
(* C1 (as claimed): when submissions of one provider overlapped and all of *)
(* them have settled, the provider's status element and its results        *)
(* element both show the outcome of the response handled last: an error    *)
(* status with an empty results element, or a success status with that     *)
(* response rendered.                                                      *)
(***************************************************************************)
C1_LastResponseWins ==
    \A p \in PageProviders :
        LET mine == {i \in Indexes : requests[i].provider = p}
        IN  (/\ \E i \in mine : \E j \in mine : Overlap(i, j)
             /\ \A i \in mine : requests[i].pc = "done")
            => LET r == requests[LastSettled(p)]
               IN  IF EndedInCatch(r)
                   THEN /\ status[StatusId(r)].className = "status error"
                        /\ results[ResultsId(r)] = <<>>
                   ELSE /\ status[StatusId(r)].className = "status success"
                        /\ Renders(r)

(***************************************************************************)
(* C2 (as claimed): whenever a submission ends in a network failure, a     *)
(* non-2xx response or malformed JSON, then right after the failure is     *)
(* handled the provider's status is "error" with the text                  *)
(* "Polling failed: <message>" and the provider's results element is       *)
(* empty, under every interleaving of submissions and responses.           *)
(***************************************************************************)
C2_FailureLeavesResultsEmpty ==
    [][\A i \in Indexes :
          (Settles(i) /\ TaxonomyFailure(requests'[i]))
          => /\ status'[StatusId(requests[i])].className = "status error"
             /\ HasPrefix(status'[StatusId(requests[i])].textContent, "Polling failed: ")
             /\ results'[ResultsId(requests[i])] = <<>>]_vars

(***************************************************************************)
(* C4 (as claimed): a request that never receives a response leaves its    *)
(* provider's status in the loading state from then on, whatever other     *)
(* submissions of the same provider do.                                    *)
(***************************************************************************)
C4_HungStaysLoading ==
    \A i \in Indexes :
        requests[i].pc = "hung"
        => status[StatusId(requests[i])].className = "status loading"

\* no request of the provider of request i has settled since i was submitted
NoneSettledSince(i) ==
    \A k \in (requests[i].seen + 1)..Len(settled) :
        requests[settled[k]].provider # requests[i].provider

(***************************************************************************)
(* C4 (amended): a request that never receives a response leaves its       *)
(* provider's status in the loading state for as long as no submission of  *)
(* the same provider has settled since that request was submitted.         *)
(***************************************************************************)
C4_HungStaysLoadingUntilSettle ==
    \A i \in Indexes :
        (requests[i].pc = "hung" /\ NoneSettledSince(i))
        => status[StatusId(requests[i])] =
              [className |-> "status loading", textContent |-> LoadingText]

\* a hung request whose provider still shows loading although a later
\* submission of the other provider has settled
C4_Witness ==
    \E i \in Indexes : \E j \in Indexes :
        /\ requests[i].pc = "hung"
        /\ i < j
        /\ requests[j].pc = "done"
        /\ requests[j].provider # requests[i].provider
        /\ NoneSettledSince(i)
        /\ status[StatusId(requests[i])].className = "status loading"

(***************************************************************************)
(* C5: once a submission has failed, every later submit event, for the     *)
(* same or another provider, sets the status to loading and issues a POST  *)
(* request, and when the handler of that request finishes the status is    *)
(* success or error.                                                       *)
(***************************************************************************)
SomeFailed == \E k \in Indexes : requests[k].pc = "done" /\ TaxonomyFailure(requests[k])

C5_SubmitAfterFailureRuns ==
    [][/\ (SomeFailed /\ SubmitStep)
          => /\ Len(requests') = Len(requests) + 1
             /\ LET r == requests'[Len(requests')]
                IN  /\ r.method = "POST"
                    /\ r.pc = "fetch"
                    /\ status'[StatusId(r)] =
                          [className |-> "status loading", textContent |-> LoadingText]
                    /\ results'[ResultsId(r)] = <<>>
       /\ \A i \in Indexes :
             (/\ Settles(i)
              /\ \E k \in 1..requests[i].seen : TaxonomyFailure(requests[settled[k]]))
             => status'[StatusId(requests[i])].className
                    \in {"status success", "status error"}]_vars

\* a submission made after a failure of the same provider that ended in success,
\* and one made after a failure that itself failed
C5_Witness ==
    /\ \E i \in Indexes : \E j \in Indexes :
          /\ requests[i].pc = "done" /\ TaxonomyFailure(requests[i])
          /\ SettledAt(i) <= requests[j].seen
          /\ requests[j].provider = requests[i].provider
          /\ requests[j].pc = "done"
          /\ status[StatusId(requests[j])].className = "status success"

(***************************************************************************)
(* Shapes of a decoded body, read off the body itself.                     *)
(***************************************************************************)
Decoded(body) == body # Malformed
Members(body) == IF body.t = "object" THEN {body.v[k] : k \in 1..Len(body.v)} ELSE {}
HasErrorString(body) ==
    \E m \in Members(body) : m.k = "error" /\ m.x.t = "string" /\ m.x.v # ""
HasNoError(body) == \A m \in Members(body) : m.k # "error"
ErrorString(body) == (CHOOSE m \in Members(body) : m.k = "error").x.v
HasDataArray(body) == \E m \in Members(body) : m.k = "data" /\ m.x.t = "array"
DataArray(body) == (CHOOSE m \in Members(body) : m.k = "data").x.v
Is2xx(response) == response.status \in 200..299

(***************************************************************************)
(* C7 (as claimed): a response is handled as a failure when it is non-2xx  *)
(* or when its decoded body has an error string, also with a 2xx status:   *)
(* the status becomes "error", the string is the message shown, nothing is *)
(* rendered; a non-2xx body without an error string shows                  *)
(* "Server responded with status N".                                       *)
(***************************************************************************)
C7_ErrorStringMeansFailure ==
    [][\A i \in Indexes :
          LET resp == requests[i].response
              sid == StatusId(requests[i])
              rid == ResultsId(requests[i])
          IN  (Settles(i) /\ requests[i].pc = "json" /\ Decoded(resp.body)
                 /\ resp.body # JNull)
              => /\ (~Is2xx(resp) \/ HasErrorString(resp.body))
                    => /\ status'[sid].className = "status error"
                       /\ results'[rid] = results[rid]
                 /\ HasErrorString(resp.body)
                    => status'[sid].textContent
                          = "Polling failed: " \o ErrorString(resp.body)
                 /\ (~Is2xx(resp) /\ HasNoError(resp.body))
                    => status'[sid].textContent
                          = "Polling failed: Server responded with status "
                            \o ToString(resp.status)]_vars

(***************************************************************************)
(* C7 (amended): a response is handled as a failure when it is non-2xx; a  *)
(* 2xx response whose body has an error string is handled as a success.    *)
(* For a non-2xx response the status becomes "error" and nothing is        *)
(* rendered (the results element is left as it was); the message shown is  *)
(* the body's error string when the decoded body has a non-empty one, and  *)
(* "Server responded with status N" when the decoded body is a non-null    *)
(* value without an error field.                                           *)
(***************************************************************************)
C7_Non2xxMeansFailure ==
    [][\A i \in Indexes :
          LET resp == requests[i].response
              sid == StatusId(requests[i])
              rid == ResultsId(requests[i])
          IN  (Settles(i) /\ requests[i].pc = "json")
              => /\ ~Is2xx(resp)
                    => /\ status'[sid].className = "status error"
                       /\ HasPrefix(status'[sid].textContent, "Polling failed: ")
                       /\ results'[rid] = results[rid]
                       /\ objectUrls' = objectUrls
                 /\ (~Is2xx(resp) /\ HasErrorString(resp.body))
                    => status'[sid].textContent
                          = "Polling failed: " \o ErrorString(resp.body)
                 /\ (~Is2xx(resp) /\ Decoded(resp.body) /\ resp.body # JNull
                       /\ HasNoError(resp.body))
                    => status'[sid].textContent
                          = "Polling failed: Server responded with status "
                            \o ToString(resp.status)
                 /\ (Is2xx(resp) /\ HasErrorString(resp.body))
                    => status'[sid].className = "status success"]_vars

\* the scenario of the HTTP 500 with body {"error": "quota exceeded"}
C7_Witness ==
    \E i \in Indexes :
        /\ requests[i].pc = "done"
        /\ requests[i].response.status = 500
        /\ HasErrorString(requests[i].response.body)
        /\ status[StatusId(requests[i])] =
              [className |-> "status error",
               textContent |-> "Polling failed: quota exceeded"]
        /\ results[ResultsId(requests[i])] = <<>>

(***************************************************************************)
(* C8 (as claimed): every 2xx response with a decodable JSON body is shown *)
(* as a success: the status becomes "success" with the text                *)
(* "Polling successful! Fetched N rows.", N being the length of a bare     *)
(* array or of the data array of an object, and the download link and the  *)
(* preformatted body are rendered.                                         *)
(***************************************************************************)
RenderedNext(r) ==
    /\ Len(results'[ResultsId(r)]) = 2
    /\ results'[ResultsId(r)][1].tag = "a"
    /\ results'[ResultsId(r)][1].download = r.provider \o "_report.json"
    /\ results'[ResultsId(r)][1].href = ObjectUrl(objectUrls')
    /\ objectUrls' = objectUrls + 1
    /\ results'[ResultsId(r)][2].tag = "pre"
    /\ results'[ResultsId(r)][2].textContent = Stringify(r.response.body, "")

FetchedText(n) == "Polling successful! Fetched " \o ToString(n) \o " rows."

ShownAsSuccess(r) ==
    /\ status'[StatusId(r)].className = "status success"
    /\ HasPrefix(status'[StatusId(r)].textContent, "Polling successful! Fetched ")
    /\ r.response.body.t = "array"
       => status'[StatusId(r)].textContent = FetchedText(Len(r.response.body.v))
    /\ HasDataArray(r.response.body)
       => status'[StatusId(r)].textContent = FetchedText(Len(DataArray(r.response.body)))
    /\ RenderedNext(r)

C8_Every2xxBodyIsSuccess ==
    [][\A i \in Indexes :
          (Settles(i) /\ requests[i].pc = "json" /\ Is2xx(requests[i].response)
             /\ Decoded(requests[i].response.body))
          => ShownAsSuccess(requests[i])]_vars

(***************************************************************************)
(* C8 (amended): every 2xx response whose decoded JSON body is not null is *)
(* shown as a success, with the row count and the rendering as claimed; a  *)
(* 2xx response whose body decodes to null ends in the error status and    *)
(* renders nothing.                                                        *)
(***************************************************************************)
C8_NonNull2xxBodyIsSuccess ==
    [][\A i \in Indexes :
          (Settles(i) /\ requests[i].pc = "json" /\ Is2xx(requests[i].response)
             /\ Decoded(requests[i].response.body))
          => IF requests[i].response.body = JNull
             THEN /\ status'[StatusId(requests[i])].className = "status error"
                  /\ results'[ResultsId(requests[i])] = results[ResultsId(requests[i])]
                  /\ objectUrls' = objectUrls
             ELSE ShownAsSuccess(requests[i])]_vars

\* the scenario of the HTTP 200 with body {"data": [{"a": 1}, {"a": 2}]}
C8_Witness ==
    \E i \in Indexes :
        /\ requests[i].pc = "done"
        /\ requests[i].response.status = 200
        /\ HasDataArray(requests[i].response.body)
        /\ status[StatusId(requests[i])] =
              [className |-> "status success",
               textContent |-> "Polling successful! Fetched 2 rows."]
        /\ Renders(requests[i])

(***************************************************************************)
(* C10: a submit event on the form of provider P and the handling of its   *)
(* response change the status and results elements of P only.              *)
(***************************************************************************)
\* a step of the handler of a submission made on the form of provider p
StepOfForm(p) ==
    \E i \in 1..Len(requests') :
        /\ requests'[i].form = p \o "-form"
        /\ i > Len(requests) \/ requests'[i].pc # requests[i].pc

C10_OtherProvidersUnchanged ==
    [][\A p \in PageProviders :
          (\/ status'[p \o "-status"] # status[p \o "-status"]
           \/ results'[p \o "-results"] # results[p \o "-results"])
          => StepOfForm(p)]_vars

\* both providers have a finished submission, one shown as success and the
\* other as error
C10_Witness ==
    \E i \in Indexes : \E j \in Indexes :
        /\ requests[i].provider # requests[j].provider
        /\ requests[i].pc = "done" /\ requests[j].pc = "done"
        /\ status[StatusId(requests[i])].className = "status success"
        /\ Renders(requests[i])
        /\ status[StatusId(requests[j])].className = "status error"
        /\ results[ResultsId(requests[j])] = <<>>

(***************************************************************************)
(* C3: after any non-empty sequence of tab-button clicks exactly one pane  *)
(* carries the active marker, and it is the pane designated by the button  *)
(* clicked last.  Checked on a page where every tab button designates a    *)
(* pane.                                                                   *)
(***************************************************************************)
C3_OnePaneActive ==
    Len(clickLog) > 0
    => /\ Cardinality(activePanes) = 1
       /\ activePanes = {DataTab(clickLog[Len(clickLog)])}

\* two clicks on different buttons, the pane of the second being the active one
C3_Witness ==
    /\ Len(clickLog) >= 2
    /\ clickLog[Len(clickLog)] # clickLog[Len(clickLog) - 1]
    /\ activePanes = {DataTab(clickLog[Len(clickLog)])}
    /\ DataTab(clickLog[Len(clickLog) - 1]) \notin activePanes

(***************************************************************************)
(* C6 (as claimed): an operation whose target element is missing is a      *)
(* no-op.  Page load renders nothing into a missing checkbox container,    *)
(* raises nothing and leaves the rest of the page alone; a submit event on *)
(* a form whose status or results element is missing raises no exception   *)
(* and changes no status element, no results element and no request.       *)
(***************************************************************************)
C6_MissingTargetIsNoOp ==
    [][/\ (~loaded /\ loaded')
          => /\ \A c \in ContainerIds \ doc : boxes'[c] = boxes[c]
             /\ uncaught' = uncaught
             /\ UNCHANGED pipeVars
       /\ \A p \in PageProviders :
             (/\ submitLog' = Append(submitLog, p \o "-form")
              /\ (p \o "-status") \notin doc \/ (p \o "-results") \notin doc)
             => /\ uncaught' = uncaught
                /\ status' = status
                /\ results' = results
                /\ requests' = requests]_vars

(***************************************************************************)
(* C9: at every submit event the payload holds dimensions and metrics as   *)
(* arrays, each exactly the checked names of the provider's panel in       *)
(* schema order (empty when nothing is checked); an input whose key is     *)
(* dimensions or metrics does not replace them.  The request body is the   *)
(* serialized payload.                                                     *)
(***************************************************************************)
\* the names of a schema list that are checked in the provider's panel
CheckedNames(p, kind) ==
    LET checked == {boxes[p \o "-" \o kind][k].value :
                       k \in {j \in 1..Len(boxes[p \o "-" \o kind]) :
                                 /\ boxes[p \o "-" \o kind][j].tag = "label"
                                 /\ boxes[p \o "-" \o kind][j].checked}}
    IN  SelectSeq(definitions[p][kind], LAMBDA name : name \in checked)

PayloadHolds(payload, kind, names) ==
    /\ Cardinality({k \in 1..Len(payload.v) : payload.v[k].k = kind}) = 1
    /\ \E k \in 1..Len(payload.v) :
          /\ payload.v[k].k = kind
          /\ payload.v[k].x.t = "array"
          /\ Len(payload.v[k].x.v) = Len(names)
          /\ \A j \in 1..Len(names) :
                payload.v[k].x.v[j] = [t |-> "string", v |-> names[j]]

C9_PayloadHoldsCheckedNames ==
    [][\A p \in PageProviders :
          submitLog' = Append(submitLog, p \o "-form")
          => /\ Len(requests') = Len(requests) + 1
             /\ LET r == requests'[Len(requests')]
                IN  /\ PayloadHolds(r.payload, "dimensions", CheckedNames(p, "dimensions"))
                    /\ PayloadHolds(r.payload, "metrics", CheckedNames(p, "metrics"))
                    /\ r.body = StringifyCompact(r.payload)]_vars

\* a submission of the form that has a select with id "dimensions", made with
\* every checkbox unchecked, and one made with a checkbox unchecked
C9_Witness ==
    \E i \in Indexes :
        /\ requests[i].provider = "hyprmx"
        /\ \E k \in 1..Len(fields["hyprmx-form"]) :
              fields["hyprmx-form"][k].id = "dimensions"
        /\ PayloadHolds(requests[i].payload, "dimensions", <<>>)
        /\ PayloadHolds(requests[i].payload, "metrics", <<>>)

(***************************************************************************)
(* C11: each submit event issues exactly one POST request and no request   *)
(* is issued by anything else: the k-th request is the POST of the k-th    *)
(* submit event, to the endpoint of the submitted form, so the number of   *)
(* requests issued equals the number of submit events; in particular no    *)
(* request is issued again after a failure.                                *)
(***************************************************************************)
C11_OneRequestPerSubmit ==
    /\ Len(requests) = Len(submitLog)
    /\ \A k \in Indexes :
           /\ requests[k].method = "POST"
           /\ requests[k].form = submitLog[k]
           /\ requests[k].endpoint = Endpoint(submitLog[k])

\* two submissions were made, both failed, and nothing is in flight
C11_Witness ==
    /\ Len(submitLog) = 2
    /\ Len(requests) = 2
    /\ Len(settled) = 2
    /\ NetworkFailure(requests[1])
    /\ Non2xx(requests[2]) /\ requests[2].pc = "done"

\* the checkboxes among the child nodes of a panel, in document order
Checkboxes(nodes) == SelectSeq(nodes, LAMBDA n : n.tag = "label")

\* the checkboxes carry exactly the values of the list, in its order, all checked
HoldsList(nodes, items) ==
    /\ Len(Checkboxes(nodes)) = Len(items)
    /\ \A i \in 1..Len(items) :
           /\ Checkboxes(nodes)[i].value = items[i]
           /\ Checkboxes(nodes)[i].checked

(***************************************************************************)
(* C12: when createCheckboxes is applied to a panel twice in sequence with *)
(* the same field list, the panel holds after the second application what  *)
(* it held after the first, whatever it held before the first: one         *)
(* checkbox per item of the list, in the order of the list, all checked.   *)
(***************************************************************************)
C12_RenderTwiceIsRenderOnce ==
    \A k \in 1..(Len(renderLog) - 1) :
        LET first == renderLog[k]
            second == renderLog[k + 1]
        IN  (/\ second.container = first.container
             /\ second.items = first.items
             /\ second.before = first.after)
            => /\ second.after = first.after
               /\ HoldsList(first.after, first.items)
               /\ HoldsList(second.after, first.items)

\* a panel holding another list with a box unchecked was rendered twice
C12_Witness ==
    /\ Len(renderLog) = 2
    /\ renderLog[1].container = renderLog[2].container
    /\ renderLog[1].items = renderLog[2].items
    /\ renderLog[2].before = renderLog[1].after
    /\ renderLog[1].items = definitions["hyprmx"].dimensions
    /\ renderLog[1].container = "facebook-dimensions"
    /\ ~HoldsList(renderLog[1].before, definitions["facebook"].dimensions)
    /\ \E i \in 1..Len(renderLog[1].before) :
           renderLog[1].before[i].tag = "label" /\ ~renderLog[1].before[i].checked

\* the schema list of one kind of a registry provider
SchemaList(provider, kind) ==
    IF kind = "dimensions" THEN definitions[provider].dimensions
    ELSE definitions[provider].metrics

\* text is a space followed by value with every underscore turned into a space
DisplaysValue(text, value) ==
    /\ Len(text) = Len(value) + 1
    /\ SubSeq(text, 1, 1) = " "
    /\ ~Includes(text, "_")
    /\ \A j \in 1..Len(value) :
           SubSeq(text, j + 1, j + 1) =
               IF SubSeq(value, j, j) = "_" THEN " " ELSE SubSeq(value, j, j)

(***************************************************************************)
(* C13: after the page load, for every provider of the registry and each   *)
(* of its two panels present in the page, the panel holds one checkbox per *)
(* item of the schema list, in order; the value of each checkbox is the    *)
(* item unchanged, its display text is the item with underscores replaced  *)
(* by spaces, and the checkbox is checked.                                 *)
(***************************************************************************)
C13_PanelsHoldSchemaLists ==
    loaded =>
        \A i \in 1..Len(DefinitionOrder) : \A kind \in {"dimensions", "metrics"} :
            LET provider == DefinitionOrder[i]
                container == provider \o "-" \o kind
                items == SchemaList(provider, kind)
                cbs == Checkboxes(boxes[container])
            IN  container \in doc
                => /\ Len(cbs) = Len(items)
                   /\ \A j \in 1..Len(items) :
                          /\ cbs[j].value = items[j]
                          /\ DisplaysValue(cbs[j].text, items[j])
                          /\ cbs[j].checked

\* a loaded page with a panel whose list has an item with an underscore
C13_Witness ==
    /\ loaded
    /\ \E c \in RegistryContainerIds \cap doc : \E k \in 1..Len(boxes[c]) :
           /\ boxes[c][k].tag = "label"
           /\ Includes(boxes[c][k].value, "_")
           /\ boxes[c][k].text # " " \o boxes[c][k].value

\* the local calendar date of a day number, as YYYY-MM-DD
LocalDate(localDay) ==
    LET c == CivilFromDays(localDay)
    IN  Pad(c.y, 4) \o "-" \o Pad(c.m, 2) \o "-" \o Pad(c.d, 2)

(***************************************************************************)
(* C14 (as claimed): after the page load every end-date input holds the    *)
(* current date and every start-date input the date seven days before it,  *)
(* as YYYY-MM-DD, and every other input holds the value of the markup,     *)
(* until the user edits a field.                                           *)
(***************************************************************************)
C14_DatesSeededFromToday ==
    (loaded /\ edits = 0) =>
        \A form \in FormIds : \A k \in 1..Len(fields[form]) :
            LET input == fields[form][k]
            IN  IF input.type = "date" /\ Includes(input.id, "-end-date")
                THEN input.value = LocalDate(clock.day)
                ELSE IF input.type = "date" /\ Includes(input.id, "-start-date")
                THEN input.value = LocalDate(clock.day - 7)
                ELSE input.value = MarkupFields[form][k].value

(***************************************************************************)
(* C15: when a submit event has run to the first suspension of its         *)
(* handler, the request has been issued and awaits its response, the       *)
(* provider's status is "loading" with the fixed message, its results      *)
(* element is empty, and the payload of the request is assembled from the  *)
(* form as it is at the submit event; no later step (edit, response)       *)
(* changes the payload or the body of a request already issued.            *)
(***************************************************************************)
C15_RequestIssuedAfterLoadingAndClear ==
    [][/\ \A p \in PageProviders :
             submitLog' = Append(submitLog, p \o "-form")
             => /\ Len(requests') = Len(requests) + 1
                /\ LET r == requests'[Len(requests')]
                   IN  /\ r.pc = "fetch"
                       /\ r.response = NoResponse
                       /\ PayloadHolds(r.payload, "dimensions",
                                       CheckedNames(p, "dimensions"))
                       /\ PayloadHolds(r.payload, "metrics", CheckedNames(p, "metrics"))
                       /\ \A k \in 1..Len(fields[p \o "-form"]) :
                              fields[p \o "-form"][k].id \notin {"dimensions", "metrics"}
                              => \E m \in 1..Len(r.payload.v) :
                                     r.payload.v[m].x =
                                         [t |-> "string",
                                          v |-> fields[p \o "-form"][k].value]
                /\ status'[p \o "-status"].className = "status loading"
                /\ status'[p \o "-status"].textContent =
                       "Polling in progress... Please wait."
                /\ results'[p \o "-results"] = <<>>
       /\ \A i \in Indexes :
             /\ requests'[i].payload = requests[i].payload
             /\ requests'[i].body = requests[i].body]_vars

\* a submission made over rendered results has been answered after the user
\* unchecked a box: its payload still lists the box
C15_Witness ==
    /\ Len(requests) = 2
    /\ requests[1].provider = "facebook" /\ requests[2].provider = "facebook"
    /\ requests[2].seen = 1
    /\ ~EndedInCatch(requests[1])
    /\ requests[2].pc = "done"
    /\ edits > 0
    /\ PayloadHolds(requests[2].payload, "dimensions", definitions["facebook"].dimensions)
    /\ CheckedNames("facebook", "dimensions") # definitions["facebook"].dimensions

\* the results element of provider p holds the rendering of a decoded body
RenderedBodies(p) ==
    {body \in Bodies \ {Malformed} :
        /\ Len(results[p \o "-results"]) = 2
        /\ results[p \o "-results"][2].textContent = Stringify(body, "")}

(***************************************************************************)
(* C16 (as claimed): whenever the results element of a provider is not     *)
(* empty, the provider's status is "success" and the row count in its      *)
(* status text is the row count of the result rendered in the results      *)
(* element, also when submissions of the provider overlap.                 *)
(***************************************************************************)
C16_ResultsMeanSuccess ==
    \A p \in PageProviders :
        results[p \o "-results"] # <<>>
        => /\ status[p \o "-status"].className = "status success"
           /\ \E body \in RenderedBodies(p) :
                  status[p \o "-status"].textContent =
                      "Polling successful! Fetched " \o ToStr(RowCount(body))
                          \o " rows."

(***************************************************************************)
(* C17: when a provider has submissions and the handler of every one of    *)
(* them has finished (response handled or failure caught), the provider's  *)
(* status is "success" or "error", not "loading".                          *)
(***************************************************************************)
C17_SettledMeansNotLoading ==
    \A p \in PageProviders :
        LET mine == {i \in Indexes : requests[i].provider = p}
        IN  (mine # {} /\ \A i \in mine : requests[i].pc = "done")
            => /\ status[p \o "-status"].className
                      \in {"status success", "status error"}
               /\ status[p \o "-status"].textContent # LoadingText

\* two overlapping submissions of one provider have both finished, the one
\* answered last with a failure
C17_Witness ==
    /\ Len(requests) = 2
    /\ Overlap(1, 2)
    /\ settled = <<2, 1>>
    /\ EndedInCatch(requests[1])
    /\ ~EndedInCatch(requests[2])

(***************************************************************************)
(* C18 (as claimed): after any non-empty sequence of tab-button clicks     *)
(* exactly one tab button carries the active marker, the button clicked    *)
(* last, and exactly the pane that button designates is active; also on a  *)
(* page where a button designates no pane, no click leaves a button active *)
(* with no active pane.                                                    *)
(***************************************************************************)
C18_ActiveButtonHasActivePane ==
    Len(clickLog) > 0
    => /\ activeButtons = {clickLog[Len(clickLog)]}
       /\ activePanes = {DataTab(clickLog[Len(clickLog)])}
       /\ activePanes # {}

====
